---- MODULE Spec2Model ----
(***************************************************************************)
(* Near-Earth objects and their close approaches: the linking constructor  *)
(* of NEODatabase (database.py), the record types (models.py), the filter  *)
(* family, the filter factory and the limiter (filters.py).                *)
(*                                                                         *)
(* Objects are identified by their position in the collection that holds   *)
(* them: NEO i is neos[i], close approach k is approaches[k].  Floats are   *)
(* modelled as naturals plus the not-a-number sentinel NaN.  A datetime is  *)
(* a triple <<day, hour, minute>> ordered lexicographically.               *)
(***************************************************************************)
EXTENDS Integers, Sequences, FiniteSets, TLC

VARIABLES
    neos,            \* NEODatabase._neos: sequence of NearEarthObject
    approaches,      \* NEODatabase._approaches: sequence of CloseApproach
    neo,             \* neo[k]: CloseApproach.neo of approach k (0 is None)
    neo_approaches,  \* neo_approaches[i]: NearEarthObject.approaches of NEO i
    neos_as_dict,    \* NEODatabase._neos_as_dict: designation -> NEO index
    pc,              \* "new", "constructed" or "raised"
    error,           \* the exception that left the last call, or "none"
    filters,         \* the collection of predicates handed to query
    n,               \* the n handed to limit: <<>> is None, <<m>> is m
    upstream,        \* the iterator handed to limit
    gen,             \* the generator object query returned
    evaluated,       \* <<k, j>>: predicate j has been called on approach k
    requested,       \* how many items have been requested from upstream
    lim,             \* the object limit returned
    out,             \* the items the consumer has received, in order
    consumer,        \* "idle", "iterating", "stopped" or "raised"
    args,            \* the ten options handed to create_filters
    my_filters,      \* the list create_filters returned
    factory,         \* "idle" or "returned"
    call,            \* the last lookup called on the database
    answer,          \* what it returned: a NEO index, 0 for None
    scanned,         \* how many NEOs its scan compared
    log              \* what it printed

dbvars == <<neos, approaches, neo, neo_approaches, neos_as_dict, pc>>
pipevars == <<filters, n, upstream, gen, evaluated, requested, lim, out,
              consumer>>
factoryvars == <<args, my_filters, factory>>
lookupvars == <<call, answer, scanned, log>>
vars == <<dbvars, error, pipevars, factoryvars, lookupvars>>

----------------------------------------------------------------------------
(* Bounds *)

MaxNeos == 2
MaxApproaches == 3
NumDesignations == 3
MaxFilters == 2
MaxLimit == 2
MaxItems == 3
MaxDays == 2

----------------------------------------------------------------------------
(* Values *)

\* float('nan'), the unknown-diameter sentinel
NaN == -1

\* the None singleton, where a string is expected
None == "None"

Designations == 1..NumDesignations
\* what load_neos reads besides the designation: name, diameter, pha
Traits == {[name |-> None, diameter |-> NaN, hazardous |-> FALSE],
           [name |-> "Eros", diameter |-> 1, hazardous |-> TRUE]}

\* a datetime, minute precision
DateTime(day, hour, minute) == <<day, hour, minute>>

SeqsUpTo(S, m) == UNION {[1..l -> S] : l \in 0..m}

Range(f) == {f[x] : x \in DOMAIN f}

----------------------------------------------------------------------------
(* models.py *)

\* NearEarthObject.__init__: the approaches list is the empty list and is
\* kept per object in neo_approaches
NearEarthObject(pdes, name, diameter, pha) ==
    [designation |-> pdes, name |-> name, diameter |-> diameter,
     hazardous |-> pha]

\* the attributes an instance of NearEarthObject answers to
NearEarthObjectAttributes ==
    {"designation", "name", "diameter", "hazardous", "approaches",
     "des", "fullname", "appendApproach", "serialize"}

\* NearEarthObject.des
NeoDes(o) == o.designation

\* NearEarthObject.appendApproach
appendApproach(lst, approach) == Append(lst, approach)

\* CloseApproach.__init__: neo is None and is kept per object in neo
CloseApproach(designation, time, distance, velocity) ==
    [designation |-> designation, time |-> time, distance |-> distance,
     velocity |-> velocity]

\* CloseApproach.des
ApproachDes(a) == a.designation

\* CloseApproach.datetime
ApproachDatetime(a) == a.time

----------------------------------------------------------------------------
(* database.py: NEODatabase.__init__ *)

\* a table that keeps the first NEO of a designation
DictOfNeosFirstWins(ns) ==
    LET keys == {ns[i].designation : i \in DOMAIN ns}
    IN  [d \in keys |->
            CHOOSE i \in DOMAIN ns :
                /\ ns[i].designation = d
                /\ \A j \in DOMAIN ns : ns[j].designation = d => i <= j]

\* {neo.des: neo for neo in self._neos}: a later NEO overwrites an earlier
\* one with the same designation
DictOfNeos(ns) ==
    LET keys == {NeoDes(ns[i]) : i \in DOMAIN ns}
    IN  [d \in keys |->
            CHOOSE i \in DOMAIN ns :
                /\ NeoDes(ns[i]) = d
                /\ \A j \in DOMAIN ns : NeoDes(ns[j]) = d => j <= i]

\* a lookup that falls back to some NEO of the table when the key is absent
DictGetItemOrAny(dict, key) ==
    IF key \in DOMAIN dict
    THEN [raised |-> FALSE, value |-> dict[key]]
    ELSE IF DOMAIN dict = {}
         THEN [raised |-> TRUE, value |-> 0]
         ELSE [raised |-> FALSE,
               value |-> dict[CHOOSE d \in DOMAIN dict : TRUE]]

\* self._neos_as_dict[approach.des]: raises KeyError when the key is absent
DictGetItem(dict, key) ==
    IF key \in DOMAIN dict
    THEN [raised |-> FALSE, value |-> dict[key]]
    ELSE [raised |-> TRUE, value |-> 0]

\* the name the constructor calls on the NEO
AppendCallName == "append_approach"

\* attribute lookup on a NearEarthObject
HasAttribute(attr) == attr \in NearEarthObjectAttributes

\* the loop over approaches, from approach k on; st holds the link fields
RECURSIVE LinkFrom(_, _, _, _)
LinkFrom(k, as, dict, st) ==
    IF k > Len(as)
    THEN st
    ELSE LET key == ApproachDes(as[k])
             got == DictGetItem(dict, key)
         IN  IF got.raised
             THEN [st EXCEPT !.error = "KeyError"]
             ELSE LET st1 == [st EXCEPT !.neo[k] = got.value] IN
                  \* the second lookup of line 53 finds what the first found
                  IF ~HasAttribute(AppendCallName)
                  THEN [st1 EXCEPT !.error = "AttributeError"]
                  ELSE LinkFrom(k + 1, as, dict,
                                [st1 EXCEPT !.approaches[got.value] =
                                                appendApproach(@, k)])

\* NEODatabase(neos, approaches)
Construct ==
    /\ pc = "new"
    /\ LET dict == DictOfNeos(neos)
           st == LinkFrom(1, approaches, dict,
                          [neo |-> neo, approaches |-> neo_approaches,
                           error |-> "none"])
       IN  /\ neos_as_dict' = dict
           /\ neo' = st.neo
           /\ neo_approaches' = st.approaches
           /\ error' = st.error
           /\ pc' = IF st.error = "none" THEN "constructed" ELSE "raised"
    /\ UNCHANGED <<neos, approaches, pipevars, factoryvars, lookupvars>>

----------------------------------------------------------------------------
(* database.py: the lookups *)

\* a lookup by pop, which takes the entry out of the table
DictAfterPop(dict, key) == [d \in DOMAIN dict \ {key} |-> dict[d]]

\* the table after self._neos_as_dict.get(designation, None): as it was
DictAfterGet(dict, key) == dict

\* self._neos_as_dict.get(designation, None)
DictGet(dict, key) == IF key \in DOMAIN dict THEN dict[key] ELSE 0

\* db.get_neo_by_designation(designation)
GetNeoByDesignation(designation) ==
    /\ pc = "constructed"
    /\ call' = [op |-> "get_neo_by_designation", designation |-> designation,
                name |-> None]
    /\ answer' = DictGet(neos_as_dict, designation)
    /\ neos_as_dict' = DictAfterGet(neos_as_dict, designation)
    /\ scanned' = 0
    /\ log' = "none"
    /\ error' = "none"
    /\ UNCHANGED <<neos, approaches, neo, neo_approaches, pc, pipevars,
                   factoryvars>>

\* a gate that turns away the empty string only
IsBadNameEmptyOnly(name) == name = ""

\* name == '' or name is None
IsBadName(name) == name = "" \/ name = None

\* [neo for neo in self._neos if neo.name == name]
RECURSIVE FilterByName(_, _, _)
FilterByName(ns, i, name) ==
    IF i > Len(ns)
    THEN <<>>
    ELSE IF ns[i].name = name
         THEN <<i>> \o FilterByName(ns, i + 1, name)
         ELSE FilterByName(ns, i + 1, name)

\* a pick of the last match
PickLast(filtered) == filtered[Len(filtered)]

\* filtered[0]
PickFirst(filtered) == filtered[1]

\* db.get_neo_by_name(name)
GetNeoByName(name) ==
    /\ pc = "constructed"
    /\ call' = [op |-> "get_neo_by_name", designation |-> 0, name |-> name]
    /\ IF IsBadName(name)
       THEN /\ log' = "bad input"
            /\ answer' = 0
            /\ scanned' = 0
       ELSE LET filtered == FilterByName(neos, 1, name) IN
            /\ scanned' = Len(neos)
            /\ IF Len(filtered) > 0
               THEN /\ log' = "found"
                    /\ answer' = PickFirst(filtered)
               ELSE /\ log' = "none"
                    /\ answer' = 0
    /\ error' = "none"
    /\ UNCHANGED <<dbvars, pipevars, factoryvars>>

\* no lookup has been called
NoLookup ==
    /\ call = [op |-> "none", designation |-> 0, name |-> None]
    /\ answer = 0
    /\ scanned = 0
    /\ log = "none"

----------------------------------------------------------------------------
(* filters.py: the predicate family *)

\* reference values: a datetime, a float or a boolean, kept in the slot of
\* its type
DateValue(t) == [date |-> t, number |-> 0, flag |-> FALSE]
NumberValue(x) == [date |-> <<0, 0, 0>>, number |-> x, flag |-> FALSE]
FlagValue(b) == [date |-> <<0, 0, 0>>, number |-> 0, flag |-> b]

\* AttributeFilter.__init__
AttributeFilter(cls, op, value) == [cls |-> cls, op |-> op, value |-> value]

\* datetime comparison
DatetimeLe(a, b) ==
    \/ a[1] < b[1]
    \/ a[1] = b[1] /\ a[2] < b[2]
    \/ a[1] = b[1] /\ a[2] = b[2] /\ a[3] <= b[3]

\* operator.eq, operator.ge, operator.le on datetimes
DatetimeOp(op, a, b) ==
    CASE op = "eq" -> a = b
      [] op = "ge" -> DatetimeLe(b, a)
      [] op = "le" -> DatetimeLe(a, b)

\* a float comparison that orders the sentinel like any other number
FloatOpOrdered(op, a, b) ==
    CASE op = "eq" -> a = b
      [] op = "ge" -> a >= b
      [] op = "le" -> a <= b

\* operator.eq, operator.ge, operator.le on floats: every comparison with
\* not-a-number is False
FloatOp(op, a, b) ==
    IF a = NaN \/ b = NaN
    THEN FALSE
    ELSE CASE op = "eq" -> a = b
           [] op = "ge" -> a >= b
           [] op = "le" -> a <= b

\* operator.eq on booleans
BoolOp(op, a, b) == (a = b)

\* self.op(attribute, self.value), by the type of the attribute
ApplyOp(cls, op, a, b) ==
    CASE cls = "CheckDate" -> DatetimeOp(op, a, b.date)
      [] cls = "CheckHazardous" -> BoolOp(op, a, b.flag)
      [] OTHER -> FloatOp(op, a, b.number)

\* a base accessor that hands back a value nothing compares with
AttributeFilterGetNaN(approach, itsNeo) == [error |-> "none", value |-> NaN]

\* AttributeFilter.get: not overridden
AttributeFilterGet(approach, itsNeo) ==
    [error |-> "UnsupportedCriterionError", value |-> 0]

\* CheckDate.get
CheckDateGet(approach, itsNeo) ==
    [error |-> "none", value |-> ApproachDatetime(approach)]

\* CheckDistance.get
CheckDistanceGet(approach, itsNeo) ==
    [error |-> "none", value |-> approach.distance]

\* CheckVelocity.get
CheckVelocityGet(approach, itsNeo) ==
    [error |-> "none", value |-> approach.velocity]

\* CheckDiameter.get: approach.neo.diameter; itsNeo is <<>> for None
CheckDiameterGet(approach, itsNeo) ==
    IF itsNeo = <<>>
    THEN [error |-> "AttributeError", value |-> 0]
    ELSE [error |-> "none", value |-> itsNeo[1].diameter]

\* CheckHazardous.get: approach.neo.hazardous
CheckHazardousGet(approach, itsNeo) ==
    IF itsNeo = <<>>
    THEN [error |-> "AttributeError", value |-> FALSE]
    ELSE [error |-> "none", value |-> itsNeo[1].hazardous]

\* self.get, dispatched on the class of the predicate
Get(cls, approach, itsNeo) ==
    CASE cls = "AttributeFilter" -> AttributeFilterGet(approach, itsNeo)
      [] cls = "CheckDate" -> CheckDateGet(approach, itsNeo)
      [] cls = "CheckDistance" -> CheckDistanceGet(approach, itsNeo)
      [] cls = "CheckVelocity" -> CheckVelocityGet(approach, itsNeo)
      [] cls = "CheckDiameter" -> CheckDiameterGet(approach, itsNeo)
      [] cls = "CheckHazardous" -> CheckHazardousGet(approach, itsNeo)

\* AttributeFilter.__call__
Call(f, approach, itsNeo) ==
    LET got == Get(f.cls, approach, itsNeo) IN
    IF got.error # "none"
    THEN [error |-> got.error, value |-> FALSE]
    ELSE [error |-> "none",
          value |-> ApplyOp(f.cls, f.op, got.value, f.value)]

\* approach.neo of stored approach k: <<>> for None
NeoOf(k) == IF neo[k] = 0 THEN <<>> ELSE <<neos[neo[k]]>>

----------------------------------------------------------------------------
(* database.py: NEODatabase.query *)

\* passing follows the predicate called last
PassingLastWins(passing, result) == result

\* if filter(approach) == False: passing = False
Passing(passing, result) == IF result = FALSE THEN FALSE ELSE passing

\* the inner loop over filters, from predicate j on, for approach k
RECURSIVE ApplyFilters(_, _, _, _, _)
ApplyFilters(fs, j, k, passing, evald) ==
    IF j > Len(fs)
    THEN [error |-> "none", passing |-> passing, evaluated |-> evald]
    ELSE LET r == Call(fs[j], approaches[k], NeoOf(k))
             ev == evald \cup {<<k, j>>}
         IN  IF r.error # "none"
             THEN [error |-> r.error, passing |-> FALSE, evaluated |-> ev]
             ELSE ApplyFilters(fs, j + 1, k, Passing(passing, r.value), ev)

\* a yield that has already run the predicates on all that is stored
YieldAtEager(k, evald) ==
    [outcome |-> "yield", item |-> k, pos |-> k, error |-> "none",
     evaluated |-> evald \cup {<<m, j>> : m \in DOMAIN approaches,
                                        j \in DOMAIN filters}]

\* yield approach: the generator is suspended at approach k
YieldAt(k, evald) ==
    [outcome |-> "yield", item |-> k, pos |-> k, error |-> "none",
     evaluated |-> evald]

\* the body of the generator from approach k on, up to its next yield, its
\* end or an exception
RECURSIVE Resume(_, _)
Resume(k, evald) ==
    IF k > Len(approaches)
    THEN [outcome |-> "stop", item |-> 0, pos |-> Len(approaches),
          error |-> "none", evaluated |-> evald]
    ELSE LET r == ApplyFilters(filters, 1, k, TRUE, evald) IN
         IF r.error # "none"
         THEN [outcome |-> "raise", item |-> 0, pos |-> k,
               error |-> r.error, evaluated |-> r.evaluated]
         ELSE IF r.passing
              THEN YieldAt(k, r.evaluated)
              ELSE Resume(k + 1, r.evaluated)

\* db.query(filters): a generator function returns its generator without
\* running any of its body
Query ==
    /\ pc = "constructed"
    /\ gen.state = "none"
    /\ gen' = [state |-> "created", pos |-> 0]
    /\ upstream' = [kind |-> "query", items |-> <<>>]
    /\ UNCHANGED <<dbvars, error, filters, n, evaluated, requested, lim, out,
                   consumer, factoryvars, lookupvars>>

----------------------------------------------------------------------------
(* filters.py: limit *)

\* a limit that passes the iterator through for None only
NoLimitNoneOnly(m) == m = <<>>

\* n == 0 or n is None
NoLimit(m) == m = <<>> \/ m = <<0>>

\* an islice that stops one item late
IsliceStopLate(cnt, stop) == cnt > stop

\* itertools.islice(iterator, 0, n): once n items have been produced the
\* next request ends the iteration without asking upstream
IsliceStop(cnt, stop) == cnt >= stop

\* limit(iterator, n)
Limit ==
    /\ upstream.kind # "none"
    /\ lim.kind = "none"
    /\ consumer = "idle"
    /\ IF NoLimit(n)
       THEN \* return iterator
            /\ lim' = [kind |-> "iterator", cnt |-> 0]
            /\ consumer' = "iterating"
            /\ error' = "none"
       ELSE IF n[1] < 0
            THEN \* islice refuses a negative stop
                 /\ lim' = lim
                 /\ consumer' = "raised"
                 /\ error' = "ValueError"
            ELSE /\ lim' = [kind |-> "islice", cnt |-> 0]
                 /\ consumer' = "iterating"
                 /\ error' = "none"
    /\ UNCHANGED <<dbvars, filters, n, upstream, gen, evaluated, requested,
                   out, factoryvars, lookupvars>>

\* next() on the upstream iterator: a generator of query, an iterator over
\* a finite sequence, or an unbounded counter
UpstreamNext ==
    CASE upstream.kind = "query" ->
            IF gen.state \in {"finished", "raised"}
            THEN [outcome |-> "stop", item |-> 0, pos |-> gen.pos,
                  error |-> "none", evaluated |-> evaluated]
            ELSE Resume(gen.pos + 1, evaluated)
      [] upstream.kind = "list" ->
            IF requested < Len(upstream.items)
            THEN [outcome |-> "yield", item |-> upstream.items[requested + 1],
                  pos |-> 0, error |-> "none", evaluated |-> evaluated]
            ELSE [outcome |-> "stop", item |-> 0, pos |-> 0,
                  error |-> "none", evaluated |-> evaluated]
      [] upstream.kind = "count" ->
            [outcome |-> "yield", item |-> requested + 1, pos |-> 0,
             error |-> "none", evaluated |-> evaluated]

\* the state of the generator after a request
GenAfter(r) ==
    IF upstream.kind # "query"
    THEN gen
    ELSE [state |-> CASE r.outcome = "yield" -> "suspended"
                      [] r.outcome = "stop" -> "finished"
                      [] r.outcome = "raise" -> "raised",
          pos |-> r.pos]

\* the unbounded counter is followed this far
MaxPulls == MaxLimit + 2

\* the consumer asks the object limit returned for its next item
NextItem ==
    /\ consumer = "iterating"
    /\ upstream.kind = "count" => requested < MaxPulls
    /\ IF lim.kind = "islice" /\ IsliceStop(lim.cnt, n[1])
       THEN /\ consumer' = "stopped"
            /\ UNCHANGED <<gen, evaluated, requested, lim, out, error>>
       ELSE LET r == UpstreamNext IN
            /\ requested' = requested + 1
            /\ gen' = GenAfter(r)
            /\ evaluated' = r.evaluated
            /\ error' = r.error
            /\ IF r.outcome = "yield"
               THEN /\ out' = Append(out, r.item)
                    /\ lim' = [lim EXCEPT !.cnt = @ + 1]
                    /\ consumer' = "iterating"
               ELSE /\ out' = out
                    /\ lim' = lim
                    /\ consumer' = IF r.outcome = "stop"
                                   THEN "stopped" ELSE "raised"
    /\ UNCHANGED <<dbvars, filters, n, upstream, factoryvars, lookupvars>>

\* nothing has been queried or limited yet
NoPipeline ==
    /\ filters = <<>>
    /\ n = <<>>
    /\ upstream = [kind |-> "none", items |-> <<>>]
    /\ gen = [state |-> "none", pos |-> 0]
    /\ evaluated = {}
    /\ requested = 0
    /\ lim = [kind |-> "none", cnt |-> 0]
    /\ out = <<>>
    /\ consumer = "idle"

----------------------------------------------------------------------------
(* filters.py: create_filters *)

\* the keys of arguments_dict, in the order the loop meets them
Keys == <<"date", "start_date", "end_date", "distance_min", "distance_max",
          "velocity_min", "velocity_max", "diameter_min", "diameter_max",
          "hazardous">>

op_dict ==
    [date |-> "eq", start_date |-> "ge", end_date |-> "le",
     distance_min |-> "ge", distance_max |-> "le",
     velocity_min |-> "ge", velocity_max |-> "le",
     diameter_min |-> "ge", diameter_max |-> "le", hazardous |-> "eq"]

filter_dict ==
    [date |-> None, start_date |-> "CheckDate", end_date |-> "CheckDate",
     distance_min |-> "CheckDistance", distance_max |-> "CheckDistance",
     velocity_min |-> "CheckVelocity", velocity_max |-> "CheckVelocity",
     diameter_min |-> "CheckDiameter", diameter_max |-> "CheckDiameter",
     hazardous |-> "CheckHazardous"]

\* str(value) + ' 00:00': the text of a date followed by a clock
DateText(day, clock) == <<day, clock>>

\* helpers.numerical_to_datetime: the datetime a text of a date and a clock
\* stands for
numerical_to_datetime(text) ==
    CASE text[2] = " 00:00" -> DateTime(text[1], 0, 0)
      [] text[2] = " 23:59" -> DateTime(text[1], 23, 59)

\* an option counts as set when it is truthy
IsTruthy(key, value) ==
    IF key = "hazardous"
    THEN value = <<TRUE>>
    ELSE IF key \in {"date", "start_date", "end_date"}
         THEN value # <<>>
         ELSE value # <<>> /\ value[1] # 0

\* value is not None; an option is <<>> for None and <<v>> for v
IsNotNone(key, value) == value # <<>>

\* the reference value of the predicate of a key other than date
ReferenceValue(key, v) ==
    CASE key = "start_date" ->
            DateValue(numerical_to_datetime(DateText(v, " 00:00")))
      [] key = "end_date" ->
            DateValue(numerical_to_datetime(DateText(v, " 23:59")))
      [] key = "hazardous" -> FlagValue(v)
      [] OTHER -> NumberValue(v)

\* an exact date kept as one equality with the start of the day
DateFiltersExact(v) ==
    <<AttributeFilter("CheckDate", op_dict["date"],
                      DateValue(numerical_to_datetime(DateText(v, " 00:00"))))>>

\* the two predicates an exact date expands into
DateFilters(v) ==
    LET start == numerical_to_datetime(DateText(v, " 00:00"))
        end == numerical_to_datetime(DateText(v, " 23:59"))
    IN  <<AttributeFilter(filter_dict["start_date"], op_dict["start_date"],
                          DateValue(start)),
          AttributeFilter(filter_dict["end_date"], op_dict["end_date"],
                          DateValue(end))>>

\* the loop over arguments_dict.items(), from key i on
RECURSIVE BuildFilters(_, _, _)
BuildFilters(a, i, acc) ==
    IF i > Len(Keys)
    THEN acc
    ELSE LET key == Keys[i]
             value == a[key]
         IN  IF IsNotNone(key, value)
             THEN IF key = "date"
                  THEN BuildFilters(a, i + 1, acc \o DateFilters(value[1]))
                  ELSE BuildFilters(a, i + 1,
                           Append(acc,
                                  AttributeFilter(filter_dict[key],
                                      op_dict[key],
                                      ReferenceValue(key, value[1]))))
             ELSE BuildFilters(a, i + 1, acc)

create_filters(a) == BuildFilters(a, 1, <<>>)

\* create_filters(**args)
CreateFilters ==
    /\ factory = "idle"
    /\ my_filters' = create_filters(args)
    /\ factory' = "returned"
    /\ UNCHANGED <<dbvars, error, pipevars, args, lookupvars>>

\* every option unset
NoArgs == [key \in Range(Keys) |-> <<>>]

\* create_filters has not been called
NoFactory ==
    /\ args = NoArgs
    /\ my_filters = <<>>
    /\ factory = "idle"

----------------------------------------------------------------------------
(* The construction specification: unlinked collections, then the          *)
(* constructor.                                                            *)

InputNeos ==
    {NearEarthObject(d, t.name, t.diameter, t.hazardous) :
        d \in Designations, t \in Traits}

InputApproaches ==
    {CloseApproach(d, DateTime(1, 0, 30), 1, 1) : d \in Designations}

Init ==
    /\ neos \in SeqsUpTo(InputNeos, MaxNeos)
    /\ approaches \in SeqsUpTo(InputApproaches, MaxApproaches)
    /\ neo = [k \in DOMAIN approaches |-> 0]
    /\ neo_approaches = [i \in DOMAIN neos |-> <<>>]
    /\ neos_as_dict = <<>>
    /\ pc = "new"
    /\ error = "none"
    /\ NoPipeline
    /\ NoFactory
    /\ NoLookup

\* the designations and names a caller asks for: those of the inputs, and
\* one of each that no NEO has
AskedDesignations == 1..(NumDesignations + 1)
AskedNames == {"", None, "Eros", "Ceres"}

Next ==
    \/ Construct
    \/ \E d \in AskedDesignations : GetNeoByDesignation(d)
    \/ \E nm \in AskedNames : GetNeoByName(nm)

Spec == Init /\ [][Next]_vars

----------------------------------------------------------------------------
(* The limiter specification: limit over an iterator of a finite sequence  *)
(* or over an unbounded counter.                                           *)

Limits == {<<>>, <<-1>>} \cup {<<m>> : m \in 0..MaxLimit}

Items == {10, 20}

InitLimit ==
    /\ neos = <<>>
    /\ approaches = <<>>
    /\ neo = <<>>
    /\ neo_approaches = <<>>
    /\ neos_as_dict = <<>>
    /\ pc = "new"
    /\ error = "none"
    /\ filters = <<>>
    /\ n \in Limits
    /\ upstream \in {[kind |-> "list", items |-> it] :
                        it \in SeqsUpTo(Items, MaxItems)}
                   \cup {[kind |-> "count", items |-> <<>>]}
    /\ gen = [state |-> "none", pos |-> 0]
    /\ evaluated = {}
    /\ requested = 0
    /\ lim = [kind |-> "none", cnt |-> 0]
    /\ out = <<>>
    /\ consumer = "idle"
    /\ NoFactory
    /\ NoLookup

NextLimit == Limit \/ NextItem

SpecLimit == InitLimit /\ [][NextLimit]_vars

----------------------------------------------------------------------------
(* The query specification: a database as the constructor is documented    *)
(* to leave it (database.py:34-37), queried through limit.                 *)

T1 == DateTime(1, 0, 30)
T2 == DateTime(2, 23, 59)

StoredNeos ==
    {<<NearEarthObject(1, None, NaN, FALSE),
       NearEarthObject(2, "Eros", 1, TRUE)>>}

StoredApproaches ==
    {CloseApproach(1, T1, 1, 2), CloseApproach(2, T1, 2, 2),
     CloseApproach(2, T2, 2, 1)}

\* the limits of the query specification: None and the positive ones
QueryLimits == {<<>>} \cup {<<m>> : m \in 1..MaxLimit}

Predicates ==
    {AttributeFilter("AttributeFilter", "eq", NumberValue(1)),
     AttributeFilter("CheckDate", "ge", DateValue(T2)),
     AttributeFilter("CheckDistance", "le", NumberValue(1)),
     AttributeFilter("CheckVelocity", "ge", NumberValue(2)),
     AttributeFilter("CheckDiameter", "ge", NumberValue(2)),
     AttributeFilter("CheckDiameter", "le", NumberValue(1)),
     AttributeFilter("CheckHazardous", "eq", FlagValue(FALSE))}

\* the indices of the approaches with the designation of NEO i, in order
RECURSIVE ApproachesOf(_, _, _)
ApproachesOf(as, ns, i) ==
    IF as = <<>>
    THEN <<>>
    ELSE LET front == ApproachesOf(SubSeq(as, 1, Len(as) - 1), ns, i) IN
         IF ApproachDes(as[Len(as)]) = NeoDes(ns[i])
         THEN Append(front, Len(as))
         ELSE front

InitQuery ==
    /\ neos \in StoredNeos
    /\ approaches \in SeqsUpTo(StoredApproaches, MaxApproaches)
    /\ neos_as_dict = DictOfNeos(neos)
    /\ neo = [k \in DOMAIN approaches |->
                 neos_as_dict[ApproachDes(approaches[k])]]
    /\ neo_approaches = [i \in DOMAIN neos |->
                            ApproachesOf(approaches, neos, i)]
    /\ pc = "constructed"
    /\ error = "none"
    /\ filters \in SeqsUpTo(Predicates, MaxFilters)
    /\ n \in QueryLimits
    /\ upstream = [kind |-> "none", items |-> <<>>]
    /\ gen = [state |-> "none", pos |-> 0]
    /\ evaluated = {}
    /\ requested = 0
    /\ lim = [kind |-> "none", cnt |-> 0]
    /\ out = <<>>
    /\ consumer = "idle"
    /\ NoFactory
    /\ NoLookup

NextQuery == Query \/ Limit \/ NextItem

SpecQuery == InitQuery /\ [][NextQuery]_vars

----------------------------------------------------------------------------
(* The read-only specification: the lookups, query and limit in any order  *)
(* on a database as the constructor is documented to leave it.             *)

InitReadOnly ==
    /\ neos \in StoredNeos
    /\ approaches \in SeqsUpTo(StoredApproaches, MaxApproaches)
    /\ neos_as_dict = DictOfNeos(neos)
    /\ neo = [k \in DOMAIN approaches |->
                 neos_as_dict[ApproachDes(approaches[k])]]
    /\ neo_approaches = [i \in DOMAIN neos |->
                            ApproachesOf(approaches, neos, i)]
    /\ pc = "constructed"
    /\ error = "none"
    /\ filters \in SeqsUpTo(Predicates, 1)
    /\ n \in QueryLimits
    /\ upstream = [kind |-> "none", items |-> <<>>]
    /\ gen = [state |-> "none", pos |-> 0]
    /\ evaluated = {}
    /\ requested = 0
    /\ lim = [kind |-> "none", cnt |-> 0]
    /\ out = <<>>
    /\ consumer = "idle"
    /\ NoFactory
    /\ NoLookup

NextReadOnly ==
    \/ Query
    \/ Limit
    \/ NextItem
    \/ \E d \in AskedDesignations : GetNeoByDesignation(d)
    \/ \E nm \in AskedNames : GetNeoByName(nm)

SpecReadOnly == InitReadOnly /\ [][NextReadOnly]_vars

----------------------------------------------------------------------------
(* The factory specification: every combination of the ten options.        *)

Days == 1..MaxDays
Numbers == {0, 1}

Option(S) == {<<>>} \cup {<<v>> : v \in S}

InitFactory ==
    /\ neos = <<>>
    /\ approaches = <<>>
    /\ neo = <<>>
    /\ neo_approaches = <<>>
    /\ neos_as_dict = <<>>
    /\ pc = "new"
    /\ error = "none"
    /\ NoPipeline
    /\ args \in [date : Option(Days), start_date : Option(Days),
                  end_date : Option(Days),
                  distance_min : Option(Numbers),
                  distance_max : Option(Numbers),
                  velocity_min : Option(Numbers),
                  velocity_max : Option(Numbers),
                  diameter_min : Option(Numbers),
                  diameter_max : Option(Numbers),
                  hazardous : Option(BOOLEAN)]
    /\ my_filters = <<>>
    /\ factory = "idle"
    /\ NoLookup

NextFactory == CreateFilters

SpecFactory == InitFactory /\ [][NextFactory]_vars

----------------------------------------------------------------------------
(* Linking *)

NeoDesignations == {NeoDes(neos[i]) : i \in DOMAIN neos}

UniqueDesignations ==
    \A i, j \in DOMAIN neos : NeoDes(neos[i]) = NeoDes(neos[j]) => i = j

IsOrphan(k) == ApproachDes(approaches[k]) \notin NeoDesignations

ValidInput == UniqueDesignations /\ \A k \in DOMAIN approaches : ~IsOrphan(k)

Occurrences(lst, x) == Cardinality({p \in DOMAIN lst : lst[p] = x})

\* C1: for valid input (unique NEO designations, every approach's
\* designation is some NEO's) the constructor completes, every approach's
\* neo is the NEO with the approach's designation, and that NEO's approaches
\* list holds the approach exactly once and holds no approach of another
\* designation.
C1_LinkingCompleteness ==
    (pc # "new" /\ ValidInput) =>
        /\ pc = "constructed"
        /\ \A k \in DOMAIN approaches :
              /\ neo[k] # 0
              /\ NeoDes(neos[neo[k]]) = ApproachDes(approaches[k])
              /\ Occurrences(neo_approaches[neo[k]], k) = 1
        /\ \A i \in DOMAIN neos :
              \A p \in DOMAIN neo_approaches[i] :
                  ApproachDes(approaches[neo_approaches[i][p]]) =
                      NeoDes(neos[i])

\* C2: when some approach's designation matches no NEO, the constructor
\* raises, no database is returned, and no orphan approach's neo is set.
C2_OrphanAborts ==
    (pc # "new" /\ \E k \in DOMAIN approaches : IsOrphan(k)) =>
        /\ pc = "raised"
        /\ error # "none"
        /\ \A k \in DOMAIN approaches : IsOrphan(k) => neo[k] = 0

\* the constructor has met an orphan while NEOs were there to be mistaken
\* for its NEO
C2_Witness ==
    /\ pc = "raised"
    /\ error = "KeyError"
    /\ neos # <<>>
    /\ \E k \in DOMAIN approaches : IsOrphan(k) /\ neo[k] = 0

----------------------------------------------------------------------------
(* Query and limit *)

Min(a, b) == IF a <= b THEN a ELSE b

StoredIndices == [k \in DOMAIN approaches |-> k]

\* predicate f returns true on approach k
Holds(f, k) ==
    LET r == Call(f, approaches[k], NeoOf(k))
    IN  r.error = "none" /\ r.value = TRUE

\* every predicate of filters returns true on approach k
Matches(k) == \A j \in DOMAIN filters : Holds(filters[j], k)

HoldsFirst(k) == Holds(filters[1], k)
HoldsSecond(k) == Holds(filters[2], k)

\* the query was iterated to exhaustion, with no limit in between
QueryExhausted ==
    upstream.kind = "query" /\ lim.kind = "iterator" /\ consumer = "stopped"

\* C3: iterating query(filters) to exhaustion yields exactly the approaches
\* on which every predicate returns true, each once, in storage order; with
\* no predicate that is every approach, with two predicates it is what both
\* single-predicate queries yield.
C3_Conjunction ==
    QueryExhausted =>
        /\ out = SelectSeq(StoredIndices, Matches)
        /\ filters = <<>> => out = StoredIndices
        /\ Len(filters) = 2 =>
              Range(out) = Range(SelectSeq(StoredIndices, HoldsFirst))
                             \cap Range(SelectSeq(StoredIndices, HoldsSecond))

\* a two-predicate query has run out after yielding some approaches and
\* rejecting others, each predicate rejecting an approach the other accepts
C3_Witness ==
    /\ QueryExhausted
    /\ Len(filters) = 2
    /\ out # <<>>
    /\ \E k \in DOMAIN approaches : HoldsFirst(k) /\ ~HoldsSecond(k)
    /\ \E k \in DOMAIN approaches : ~HoldsFirst(k) /\ HoldsSecond(k)

\* C4: limit(seq, 0) and limit(seq, None) return seq itself, which iterates
\* as seq does; for n > 0, limit(seq, n) yields the first min(n, len(seq))
\* items of seq, in order.
C4_LimitCorrect ==
    /\ (n \in {<<>>, <<0>>} /\ lim.kind # "none") => lim.kind = "iterator"
    /\ (upstream.kind = "list" /\ consumer = "stopped") =>
          IF n \in {<<>>, <<0>>}
          THEN out = upstream.items
          ELSE out = SubSeq(upstream.items, 1,
                            Min(n[1], Len(upstream.items)))

\* a limit below the length of the sequence has cut it
C4_Witness ==
    /\ upstream.kind = "list"
    /\ consumer = "stopped"
    /\ n # <<>>
    /\ n[1] > 0
    /\ n[1] < Len(upstream.items)
    /\ Len(out) = n[1]

\* C5: for n > 0, iterating limit(iterator, n) requests at most n items
\* from the iterator, and once the n-th item has been produced the iteration
\* ends with no further request.
C5_NoOverConsumption ==
    lim.kind = "islice" =>
        /\ requested <= n[1]
        /\ (consumer = "stopped" /\ Len(out) = n[1]) => requested = n[1]

\* the iteration over an unbounded iterator has ended after n items
C5_Witness ==
    /\ upstream.kind = "count"
    /\ lim.kind = "islice"
    /\ consumer = "stopped"
    /\ n[1] > 1
    /\ Len(out) = n[1]

\* how many approaches stored before approach k match
MatchesBefore(k) == Cardinality({m \in 1..(k - 1) : Matches(m)})

\* C6: query evaluates no predicate before an item is requested, and under
\* limit(query(filters), n) with n > 0 a predicate is only ever evaluated on
\* an approach that fewer than n matching approaches precede.
C6_LazyQuery ==
    /\ requested = 0 => evaluated = {}
    /\ (upstream.kind = "query" /\ lim.kind = "islice") =>
          \A e \in evaluated : MatchesBefore(e[1]) < n[1]

\* the limited query has ended and left a stored approach unvisited
C6_Witness ==
    /\ upstream.kind = "query"
    /\ lim.kind = "islice"
    /\ consumer = "stopped"
    /\ filters # <<>>
    /\ Len(out) = n[1]
    /\ \E k \in DOMAIN approaches :
          Matches(k) /\ \A j \in DOMAIN filters : <<k, j>> \notin evaluated

HasPredicate(cls) == \E j \in DOMAIN filters : filters[j].cls = cls

UnknownDiameter(k) == neo[k] # 0 /\ neos[neo[k]].diameter = NaN

\* C9: on an approach whose NEO has the unknown diameter, a diameter
\* predicate returns false and does not raise, and a query that includes a
\* diameter predicate never yields such an approach.
C9_UnknownDiameter ==
    \A k \in DOMAIN approaches :
        UnknownDiameter(k) =>
            /\ \A j \in DOMAIN filters :
                  filters[j].cls = "CheckDiameter" =>
                      Call(filters[j], approaches[k], NeoOf(k)) =
                          [error |-> "none", value |-> FALSE]
            /\ (upstream.kind = "query" /\ HasPredicate("CheckDiameter")) =>
                  k \notin Range(out)

\* a diameter predicate has been called on an approach of unknown diameter
\* in a query that yielded other approaches
C9_Witness ==
    /\ upstream.kind = "query"
    /\ consumer = "stopped"
    /\ out # <<>>
    /\ \E e \in evaluated :
          UnknownDiameter(e[1]) /\ filters[e[2]].cls = "CheckDiameter"

\* C10: with a base AttributeFilter among the predicates and an approach in
\* the database, the first request raises the unsupported-criterion error
\* and nothing is yielded, whatever the other predicates return.
C10_UnsupportedCriterion ==
    (upstream.kind = "query" /\ HasPredicate("AttributeFilter")
        /\ approaches # <<>>) =>
        /\ out = <<>>
        /\ consumer # "stopped"
        /\ requested >= 1 =>
              consumer = "raised" /\ error = "UnsupportedCriterionError"

\* the query has raised although the predicate before the base one returned
\* false on the first approach
C10_Witness ==
    /\ upstream.kind = "query"
    /\ consumer = "raised"
    /\ error = "UnsupportedCriterionError"
    /\ Len(filters) = 2
    /\ filters[2].cls = "AttributeFilter"
    /\ filters[1].cls # "AttributeFilter"
    /\ ~Holds(filters[1], 1)

----------------------------------------------------------------------------
(* The filter factory *)

\* the predicates an option set to v stands for
Expected(key, v) ==
    CASE key = "date" ->
            {AttributeFilter("CheckDate", "ge", DateValue(DateTime(v, 0, 0))),
             AttributeFilter("CheckDate", "le", DateValue(DateTime(v, 23, 59)))}
      [] key = "start_date" ->
            {AttributeFilter("CheckDate", "ge", DateValue(DateTime(v, 0, 0)))}
      [] key = "end_date" ->
            {AttributeFilter("CheckDate", "le", DateValue(DateTime(v, 23, 59)))}
      [] key = "distance_min" ->
            {AttributeFilter("CheckDistance", "ge", NumberValue(v))}
      [] key = "distance_max" ->
            {AttributeFilter("CheckDistance", "le", NumberValue(v))}
      [] key = "velocity_min" ->
            {AttributeFilter("CheckVelocity", "ge", NumberValue(v))}
      [] key = "velocity_max" ->
            {AttributeFilter("CheckVelocity", "le", NumberValue(v))}
      [] key = "diameter_min" ->
            {AttributeFilter("CheckDiameter", "ge", NumberValue(v))}
      [] key = "diameter_max" ->
            {AttributeFilter("CheckDiameter", "le", NumberValue(v))}
      [] key = "hazardous" ->
            {AttributeFilter("CheckHazardous", "eq", FlagValue(v))}

SetKeys == {key \in Range(Keys) : args[key] # <<>>}

\* how many set options stand for predicate p
Sources(p) ==
    Cardinality({key \in SetKeys : p \in Expected(key, args[key][1])})

\* C7: the list create_filters returns holds, for every option that is not
\* None, the predicate of that option once (the two predicates of date once
\* each), and nothing else; False and 0 are values, not None.
C7_FactoryCoverage ==
    factory = "returned" =>
        \A p \in Range(my_filters)
                    \cup UNION {Expected(key, args[key][1]) : key \in SetKeys} :
            Occurrences(my_filters, p) = Sources(p)

\* the factory has returned for hazardous=False, a bound of 0, a date, and
\* some option left unset
C7_Witness ==
    /\ factory = "returned"
    /\ args.hazardous = <<FALSE>>
    /\ args.distance_min = <<0>>
    /\ args.date # <<>>
    /\ args.velocity_max = <<>>
    /\ Len(my_filters) >= 4

OnlyDate(D) == [NoArgs EXCEPT !.date = <<D>>]

OnlyRange(D) == [NoArgs EXCEPT !.start_date = <<D>>, !.end_date = <<D>>]

SampleTimes ==
    {DateTime(d, c[1], c[2]) :
        d \in 0..(MaxDays + 1), c \in {<<0, 0>>, <<12, 30>>, <<23, 59>>}}

\* every predicate of my_filters returns true on an approach at time t
Selected(t) ==
    \A j \in DOMAIN my_filters :
        Call(my_filters[j], CloseApproach(1, t, 1, 1), <<>>) =
            [error |-> "none", value |-> TRUE]

\* C8: create_filters(date=D) and create_filters(start_date=D, end_date=D)
\* return the same two predicates, timestamp >= D 00:00 and timestamp <=
\* D 23:59, which select the approaches of day D; a date supplied with a
\* start_date or an end_date leaves the predicates of all of them in the
\* list.
C8_DateExpansion ==
    factory = "returned" =>
        \A D \in Days :
            /\ (args = OnlyDate(D) \/ args = OnlyRange(D)) =>
                  /\ Range(my_filters) = Expected("date", D)
                  /\ \A t \in SampleTimes : Selected(t) <=> t[1] = D
            /\ args.date = <<D>> =>
                  /\ Expected("date", D) \subseteq Range(my_filters)
                  /\ args.start_date # <<>> =>
                        Expected("start_date", args.start_date[1])
                            \subseteq Range(my_filters)
                  /\ args.end_date # <<>> =>
                        Expected("end_date", args.end_date[1])
                            \subseteq Range(my_filters)

\* the factory has returned for a date alone
C8_Witness ==
    /\ factory = "returned"
    /\ \E D \in Days : args = OnlyDate(D)
    /\ Len(my_filters) = 2

----------------------------------------------------------------------------
(* Lookups *)

WithDesignation(d) == {i \in DOMAIN neos : NeoDes(neos[i]) = d}

WithName(nm) == {i \in DOMAIN neos : neos[i].name = nm}

AskedByDesignation == call.op = "get_neo_by_designation"

AskedByName == call.op = "get_neo_by_name"

\* C11 as stated: get_neo_by_designation(d) returns the NEO whose
\* designation is d, None when there is none, and for every NEO n of the
\* database get_neo_by_designation(n.designation) returns n.
C11_EveryNeoFound ==
    AskedByDesignation =>
        /\ WithDesignation(call.designation) = {} => answer = 0
        /\ \A i \in WithDesignation(call.designation) : answer = i

\* C11, amended: get_neo_by_designation(d) returns None when no NEO has
\* designation d and otherwise the last NEO, in collection order, whose
\* designation is d: every NEO whose designation no later NEO shares is
\* returned for its designation.
C11_LastNeoFound ==
    AskedByDesignation =>
        IF WithDesignation(call.designation) = {}
        THEN answer = 0
        ELSE /\ answer \in WithDesignation(call.designation)
             /\ \A i \in WithDesignation(call.designation) : i <= answer

\* a designation two NEOs share has been looked up
C11_Witness ==
    /\ AskedByDesignation
    /\ answer # 0
    /\ Cardinality(WithDesignation(call.designation)) = 2

\* C12: for a name other than '' and None, get_neo_by_name returns the
\* first NEO in collection order with that name, also when several have it,
\* and None when none has it, without failing; it never returns an unnamed
\* NEO.
C12_FirstByName ==
    AskedByName =>
        /\ error = "none"
        /\ answer # 0 => neos[answer].name # None
        /\ call.name \notin {"", None} =>
              IF WithName(call.name) = {}
              THEN answer = 0
              ELSE /\ answer \in WithName(call.name)
                   /\ \A i \in WithName(call.name) : answer <= i

\* a name two NEOs share has been looked up
C12_Witness ==
    /\ AskedByName
    /\ Cardinality(WithName(call.name)) = 2
    /\ call.name # None
    /\ answer = 1

\* C13: get_neo_by_name('') and get_neo_by_name(None) return None, raise
\* nothing and compare no NEO, also when NEOs without a name are there.
C13_BadNameRejected ==
    (AskedByName /\ call.name \in {"", None}) =>
        /\ answer = 0
        /\ scanned = 0
        /\ error = "none"

\* None has been looked up in a database that holds an unnamed NEO
C13_Witness ==
    /\ AskedByName
    /\ call.name = None
    /\ WithName(None) # {}
    /\ answer = 0

----------------------------------------------------------------------------
(* Duplicate designations and the two directions of the link *)

\* the last NEO, in collection order, with designation d
LastWith(d) ==
    CHOOSE i \in WithDesignation(d) : \A j \in WithDesignation(d) : j <= i

\* C15: when NEOs share a designation, the table maps it to the last of
\* them, get_neo_by_designation returns the last, every approach with that
\* designation has the last as its neo, and the earlier ones keep an empty
\* approaches list.
C15_LastWriteWins ==
    pc # "new" =>
        \A d \in NeoDesignations :
            Cardinality(WithDesignation(d)) >= 2 =>
                /\ neos_as_dict[d] = LastWith(d)
                /\ (AskedByDesignation /\ call.designation = d) =>
                      answer = LastWith(d)
                /\ \A k \in DOMAIN approaches :
                      ApproachDes(approaches[k]) = d => neo[k] = LastWith(d)
                /\ \A i \in WithDesignation(d) :
                      i # LastWith(d) => neo_approaches[i] = <<>>

\* C16: once the constructor has returned or raised, approach k has NEO i
\* as its neo exactly when k is in the approaches list of NEO i.
C16_LinkBothWays ==
    pc \in {"constructed", "raised"} =>
        \A k \in DOMAIN approaches :
            \A i \in DOMAIN neos :
                neo[k] = i <=> k \in Range(neo_approaches[i])

----------------------------------------------------------------------------
(* Read-only after construction *)

\* C14: once the database is constructed, no lookup, query or limit call
\* and no request for an item changes the NEO collection, the approach
\* collection, the lookup table, any approach's neo or any NEO's approaches
\* list, and no predicate's operator or reference value changes.
C14_ReadOnly ==
    [][pc = "constructed" =>
          /\ neos' = neos
          /\ approaches' = approaches
          /\ neos_as_dict' = neos_as_dict
          /\ neo' = neo
          /\ neo_approaches' = neo_approaches
          /\ filters' = filters]_vars

\* a lookup has returned a NEO and a query has been iterated to its end,
\* with predicates evaluated and approaches yielded
C14_Witness ==
    /\ pc = "constructed"
    /\ call.op # "none"
    /\ answer # 0
    /\ consumer = "stopped"
    /\ evaluated # {}
    /\ out # <<>>

====
